---------------------------- MODULE Spec2Model ----------------------------
(***************************************************************************)
(* A model of src/expense_tracker.py: class ExpenseTracker, its durable    *)
(* file expenses.json, and the operations load_data, save_data,            *)
(* validate_amount, validate_date, add_expense, update_expense,            *)
(* delete_expense and show_summary.                                        *)
(*                                                                         *)
(* Representation.  A Python str is a sequence of one-character strings    *)
(* (so that strip(), slicing, float() and strptime() can be computed       *)
(* character by character).  A Python float is a record                    *)
(*   [k |-> "fin", v |-> n]   the finite value n/10 (one decimal digit),   *)
(*   [k |-> "inf", v |-> 1 or -1]   plus or minus infinity,                *)
(*   [k |-> "nan", v |-> 0]   not-a-number.                                *)
(* The amount texts drawn below have at most one fractional digit, and     *)
(* that digit is 0 or 5, so every finite value and every sum in the model  *)
(* is exactly representable in binary floating point.                      *)
(* An Optional[...] argument is [some |-> FALSE] (None) or                 *)
(* [some |-> TRUE, val |-> x].                                             *)
(***************************************************************************)
EXTENDS Integers, Sequences, FiniteSets, TLC

(***************************************************************************)
(* Bounds of the model.                                                    *)
(***************************************************************************)
\* the longest sequence of expenses explored (add is not taken beyond it)
MaxLen == 2

(***************************************************************************)
(* Characters and strings.                                                 *)
(***************************************************************************)
DigitChars == <<"0", "1", "2", "3", "4", "5", "6", "7", "8", "9">>

IsDigit(c) == \E i \in 1..10 : DigitChars[i] = c

\* int(c) of a decimal digit
DigitVal(c) == (CHOOSE i \in 1..10 : DigitChars[i] = c) - 1

\* str.isspace() for the whitespace characters of the alphabet
IsSpace(c) == c \in {" ", "\t", "\n"}

\* the characters that occur in the model, in ascending code point order
CodePointOrder ==
  <<"\t", "\n", " ", "+", "-", ".",
    "0", "1", "2", "3", "4", "5", "6", "7", "8", "9",
    "F", "T", "U", "a", "c", "d", "e", "f", "g", "i",
    "n", "o", "r", "t", "x", "z">>

\* ord(c), up to an order-preserving renumbering
Ord(c) == CHOOSE i \in 1..Len(CodePointOrder) : CodePointOrder[i] = c

\* s < t for Python str: lexicographic by code point
RECURSIVE StrLess(_, _)
StrLess(s, t) ==
  IF t = <<>> THEN FALSE
  ELSE IF s = <<>> THEN TRUE
  ELSE IF Head(s) = Head(t) THEN StrLess(Tail(s), Tail(t))
  ELSE Ord(Head(s)) < Ord(Head(t))

RECURSIVE LStrip(_)
LStrip(s) == IF s # <<>> /\ IsSpace(Head(s)) THEN LStrip(Tail(s)) ELSE s

RECURSIVE RStrip(_)
RStrip(s) ==
  IF s # <<>> /\ IsSpace(s[Len(s)]) THEN RStrip(SubSeq(s, 1, Len(s) - 1)) ELSE s

\* str.strip()
Strip(s) == RStrip(LStrip(s))

\* s[:n]
Prefix(s, n) == SubSeq(s, 1, IF Len(s) < n THEN Len(s) ELSE n)

\* the literal "Uncategorized"
Uncategorized ==
  <<"U", "n", "c", "a", "t", "e", "g", "o", "r", "i", "z", "e", "d">>

None == [some |-> FALSE]

Some(x) == [some |-> TRUE, val |-> x]

(***************************************************************************)
(* Floats.                                                                 *)
(***************************************************************************)
Fin(n) == [k |-> "fin", v |-> n]

NaN == [k |-> "nan", v |-> 0]

Inf(sign) == [k |-> "inf", v |-> sign]

\* x <= 0 for floats: every comparison with nan is False
FloatLeqZero(x) == x.k # "nan" /\ x.v <= 0

\* x > 0 for floats
FloatPositive(x) == x.k # "nan" /\ x.v > 0

\* x + y for floats
FloatAdd(x, y) ==
  IF x.k = "nan" \/ y.k = "nan" THEN NaN
  ELSE IF x.k = "inf" /\ y.k = "inf" THEN (IF x.v = y.v THEN x ELSE NaN)
  ELSE IF x.k = "inf" THEN x
  ELSE IF y.k = "inf" THEN y
  ELSE Fin(x.v + y.v)

\* the value of a non-empty run of decimal digits
RECURSIVE DigitsVal(_)
DigitsVal(s) ==
  IF s = <<>> THEN 0 ELSE 10 * DigitsVal(SubSeq(s, 1, Len(s) - 1)) + DigitVal(s[Len(s)])

AllDigits(s) == \A i \in 1..Len(s) : IsDigit(s[i])

\* an unsigned decimal literal: digits, digits "." , digits "." digit, "." digit
\* (at most one fractional digit; exponents and underscores are outside the
\* texts the model draws).  Returns the value in tenths, or -1 when s is no
\* such literal.
DecimalTenths(s) ==
  LET dots == {i \in 1..Len(s) : s[i] = "."}
  IN  IF s = <<>> THEN -1
      ELSE IF dots = {} THEN (IF AllDigits(s) THEN 10 * DigitsVal(s) ELSE -1)
      ELSE IF Cardinality(dots) > 1 THEN -1
      ELSE LET p    == CHOOSE i \in dots : TRUE
               int  == SubSeq(s, 1, p - 1)
               frac == SubSeq(s, p + 1, Len(s))
           IN  IF AllDigits(int) /\ AllDigits(frac) /\ Len(frac) <= 1
                  /\ Len(int) + Len(frac) >= 1
               THEN 10 * DigitsVal(int) + DigitsVal(frac)
               ELSE -1

\* float(text): [ok |-> FALSE] stands for ValueError
ParseFloat(text) ==
  LET s    == Strip(text)
      neg  == s # <<>> /\ Head(s) = "-"
      body == IF s # <<>> /\ Head(s) \in {"+", "-"} THEN Tail(s) ELSE s
      sign == IF neg THEN -1 ELSE 1
  IN  IF body = <<"n", "a", "n">> THEN [ok |-> TRUE, val |-> NaN]
      ELSE IF body = <<"i", "n", "f">> THEN [ok |-> TRUE, val |-> Inf(sign)]
      ELSE IF DecimalTenths(body) >= 0
           THEN [ok |-> TRUE, val |-> Fin(sign * DecimalTenths(body))]
           ELSE [ok |-> FALSE]

(***************************************************************************)
(* Dates.                                                                  *)
(***************************************************************************)
IsLeap(y) == (y % 4 = 0 /\ y % 100 # 0) \/ y % 400 = 0

DaysInMonth(y, m) ==
  IF m = 2 THEN (IF IsLeap(y) THEN 29 ELSE 28)
  ELSE IF m \in {4, 6, 9, 11} THEN 30
  ELSE 31

\* datetime's own range check of (year, month, day)
IsCalendarDate(y, m, d) ==
  y >= 1 /\ m \in 1..12 /\ d >= 1 /\ d <= DaysInMonth(y, m)

\* strptime's pattern for %m: 1[0-2] | 0[1-9] | [1-9]
MatchesMonth(t) ==
  \/ Len(t) = 2 /\ t[1] = "1" /\ t[2] \in {"0", "1", "2"}
  \/ Len(t) = 2 /\ t[1] = "0" /\ IsDigit(t[2]) /\ t[2] # "0"
  \/ Len(t) = 1 /\ IsDigit(t[1]) /\ t[1] # "0"

\* strptime's pattern for %d: 3[0-1] | [1-2]\d | 0[1-9] | [1-9] | " "[1-9]
MatchesDay(t) ==
  \/ Len(t) = 2 /\ t[1] = "3" /\ t[2] \in {"0", "1"}
  \/ Len(t) = 2 /\ t[1] \in {"1", "2"} /\ IsDigit(t[2])
  \/ Len(t) = 2 /\ t[1] = "0" /\ IsDigit(t[2]) /\ t[2] # "0"
  \/ Len(t) = 1 /\ IsDigit(t[1]) /\ t[1] # "0"
  \/ Len(t) = 2 /\ t[1] = " " /\ IsDigit(t[2]) /\ t[2] # "0"

\* the numeric value of a day or month token (a leading space counts as 0)
TokenVal(t) == DigitsVal(SelectSeq(t, IsDigit))

\* datetime.strptime(s, '%Y-%m-%d') returns (TRUE) or raises ValueError (FALSE):
\* the whole string must match \d\d\d\d-<month>-<day> and name a date
\* that exists.
Strptime(s) ==
  \E ml \in 1..2, dl \in 1..2 :
    /\ Len(s) = 4 + 1 + ml + 1 + dl
    /\ AllDigits(SubSeq(s, 1, 4))
    /\ s[5] = "-"
    /\ MatchesMonth(SubSeq(s, 6, 5 + ml))
    /\ s[6 + ml] = "-"
    /\ MatchesDay(SubSeq(s, 7 + ml, 6 + ml + dl))
    /\ IsCalendarDate(DigitsVal(SubSeq(s, 1, 4)),
                      TokenVal(SubSeq(s, 6, 5 + ml)),
                      TokenVal(SubSeq(s, 7 + ml, 6 + ml + dl)))


(***************************************************************************)
(* The program's state.                                                    *)
(***************************************************************************)
VARIABLES
  pc,        \* "new": before ExpenseTracker(); "ready": constructed;
             \* "crashed": __init__ raised an exception nobody catches
  expenses,  \* self.expenses
  file,      \* the durable file DATA_FILE: [kind, data]
  disk,      \* how the storage under DATA_FILE answers a write (see Disks)
  last,      \* the last call: see Call
  report     \* what the last call printed, when it was show_summary

vars == <<pc, expenses, file, disk, last, report>>

\* One stored record (the dict built in add_expense)
Expense(amount, date, note, category) ==
  [amount |-> amount, date |-> date, note |-> note, category |-> category]

\* The durable file.  kind is
\*   "absent"          no file DATA_FILE
\*   "list"            a JSON array of objects: data is what json.load returns
\*   "malformed_json"  text that is not JSON (a truncated write is such a text)
\*   "bad_encoding"    bytes that do not decode in the default text encoding
\*   "unreadable"      open() raises an OSError (permissions, a directory)
\*   "json_scalar"     valid JSON that is a number, not an array
File(kind, data) == [kind |-> kind, data |-> data]

(***************************************************************************)
(* load_data and save_data.                                                *)
(***************************************************************************)
\* load_data on file f: the exception that escapes it (raised), or the value
\* it leaves in self.expenses.  json.JSONDecodeError and IOError are caught;
\* UnicodeDecodeError (a ValueError that is no JSONDecodeError) and the
\* TypeError of len(<number>) in the print are not.
LoadData(f) ==
  CASE f.kind = "absent"         -> [raised |-> FALSE, expenses |-> <<>>]
    [] f.kind = "list"           -> [raised |-> FALSE, expenses |-> f.data]
    [] f.kind = "malformed_json" -> [raised |-> FALSE, expenses |-> <<>>]
    [] f.kind = "unreadable"     -> [raised |-> FALSE, expenses |-> <<>>]
    [] f.kind = "bad_encoding"   -> [raised |-> TRUE, expenses |-> <<>>]
    [] f.kind = "json_scalar"    -> [raised |-> TRUE, expenses |-> <<>>]

\* How the storage answers open(DATA_FILE, 'w') and the writes that follow,
\* for the whole run:
\*   "ok"         every write succeeds
\*   "read_only"  open() raises an OSError (a read-only directory or file)
\*   "full"       open() truncates the file and the write raises an OSError
Disks == {"ok", "read_only", "full"}

\* The file after save_data wrote sequence exps over file f on disk d.  An
\* IOError is caught and printed; nothing is returned or re-raised.  A write
\* cut short leaves a prefix of the JSON text, which is not JSON.
SaveData(f, exps, d) ==
  CASE d = "ok"        -> File("list", exps)
    [] d = "read_only" -> f
    [] d = "full"      -> File("malformed_json", <<>>)

\* What the save_data of a call met: "saved", or "ioerror"
SaveResult(d) == IF d = "ok" THEN "saved" ELSE "ioerror"

(***************************************************************************)
(* Validation.                                                             *)
(***************************************************************************)
\* validate_amount: the parsed float, or None
ValidateAmount(amount) ==
  LET r == ParseFloat(amount)
  IN  IF ~r.ok THEN None
      ELSE IF FloatLeqZero(r.val) THEN None
      ELSE Some(r.val)

\* validate_date: the string itself, or None
ValidateDate(date_str) ==
  IF Strptime(date_str) THEN Some(date_str) ELSE None

\* A slip of NormalizeCategory: the 'or "Uncategorized"' is forgotten
NormalizeCategoryNoDefault(category) == Strip(category)

\* category.strip() or "Uncategorized"
NormalizeCategory(category) ==
  IF Strip(category) = <<>> THEN Uncategorized ELSE Strip(category)

(***************************************************************************)
(* The inputs the model draws.                                             *)
(***************************************************************************)
A_1_5 == <<" ", "1", ".", "5">>

A_2 == <<"2">>

A_0 == <<"0">>

A_neg1 == <<"-", "1">>

A_x == <<"x">>

A_nan == <<"n", "a", "n">>

A_empty == <<>>

D_2024_02_29 == <<"2", "0", "2", "4", "-", "0", "2", "-", "2", "9">>

D_2024_1_5 == <<"2", "0", "2", "4", "-", "1", "-", "5">>

D_2023_02_29 == <<"2", "0", "2", "3", "-", "0", "2", "-", "2", "9">>

D_2024_02_30 == <<"2", "0", "2", "4", "-", "0", "2", "-", "3", "0">>

D_2023_13_01 == <<"2", "0", "2", "3", "-", "1", "3", "-", "0", "1">>

D_not_a_date == <<"n", "o", "t", "-", "a", "-", "d", "a", "t", "e">>

N_empty == <<>>

N_a == <<" ", "a", " ">>

C_blank == <<" ">>

C_F == <<"F", " ">>

\* the amount texts of the core inputs, and with a second number and "nan"
AmountTexts == {A_1_5, A_0, A_neg1, A_x, A_empty}

AmountTextsWide == AmountTexts \cup {A_2, A_nan}

DateTexts ==
  {D_2024_02_29, D_2024_1_5, D_2023_02_29, D_2024_02_30, D_2023_13_01,
   D_not_a_date}

NoteTexts == {N_empty, N_a}

CategoryTexts == {C_blank, C_F}

\* add_expense's arguments <<amount, date, note, category>>: every amount of
\* A, every date and every note and category around one valid call, and a
\* call with both required fields invalid
AddInputsOver(A) ==
  (A \X {D_2024_02_29} \X {N_a} \X {C_F})
    \cup ({A_1_5} \X DateTexts \X {N_a} \X {C_F})
    \cup ({A_1_5} \X {D_2024_02_29} \X NoteTexts \X CategoryTexts)
    \cup {<<A_x, D_2024_02_30, N_empty, C_blank>>}

\* update_expense's optional arguments <<amount, date, note, category>>: one
\* field at a time, none, and several at once
UpdateInputsOver(A) ==
  ({Some(a) : a \in A} \X {None} \X {None} \X {None})
    \cup ({None} \X {Some(d) : d \in DateTexts \ {D_2023_13_01, D_2023_02_29}}
                 \X {None} \X {None})
    \cup ({None} \X {None} \X {Some(n) : n \in NoteTexts} \X {None})
    \cup ({None} \X {None} \X {None} \X {Some(c) : c \in CategoryTexts})
    \cup {<<None, None, None, None>>,
          <<Some(A_1_5), Some(D_2024_02_30), Some(N_empty), Some(C_blank)>>,
          <<Some(A_0), Some(D_2024_02_29), None, Some(C_F)>>}

\* the arguments update_expense is called with when the index is out of range
OutOfRangeInputs ==
  {<<None, None, None, None>>,
   <<Some(A_1_5), Some(D_2024_02_29), Some(N_a), Some(C_F)>>}

AddInputs == AddInputsOver(AmountTexts)

AddInputsWide == AddInputsOver(AmountTextsWide)

UpdateInputs == UpdateInputsOver(AmountTexts)

UpdateInputsWide == UpdateInputsOver(AmountTextsWide)

\* the indexes update_expense and delete_expense are called with
Indexes == -1..(MaxLen + 1)

\* The contents of DATA_FILE when the program starts
InitialFiles ==
  {File("absent", <<>>),
   File("list", <<Expense(Fin(15), D_2024_02_29, <<"a">>, <<"F">>)>>),
   File("malformed_json", <<>>),
   File("bad_encoding", <<>>),
   File("unreadable", <<>>),
   File("json_scalar", <<>>)}

\* The record of a call, for last: the operation, its index argument (0 when
\* it has none), what it returned, and what its save_data met ("none" when it
\* did not call save_data, else "saved" or "ioerror")
Call(op, index, ret, save) ==
  [op |-> op, index |-> index, ret |-> ret, save |-> save]

NoCall == Call("none", 0, FALSE, "none")

NoReport == [nodata |-> TRUE, total |-> Fin(0), by_category |-> <<>>, by_month |-> <<>>]

Start(disks) ==
  /\ pc = "new"
  /\ expenses = <<>>
  /\ file \in InitialFiles
  /\ disk \in disks
  /\ last = NoCall
  /\ report = NoReport

Init == Start({"ok"})

InitWide == Start(Disks)

(***************************************************************************)
(* The operations.                                                         *)
(***************************************************************************)
\* ExpenseTracker(): __init__ sets self.expenses = [] and calls load_data
Construct ==
  /\ pc = "new"
  /\ pc' = IF LoadData(file).raised THEN "crashed" ELSE "ready"
  /\ expenses' = LoadData(file).expenses
  /\ last' = Call("load", 0, ~LoadData(file).raised, "none")
  /\ report' = NoReport
  /\ UNCHANGED <<file, disk>>

\* add_expense(amount, date, note, category)
AddExpense(amount, date, note, category) ==
  LET validated_amount == ValidateAmount(amount)
      validated_date   == ValidateDate(date)
      ok               == validated_amount.some /\ validated_date.some
  IN  /\ pc = "ready"
      /\ Len(expenses) < MaxLen
      /\ IF ~ok
         THEN /\ last' = Call("add", 0, FALSE, "none")
              /\ UNCHANGED <<expenses, file>>
         ELSE /\ expenses' = Append(expenses,
                               Expense(validated_amount.val, validated_date.val,
                                       Strip(note), NormalizeCategory(category)))
              /\ file' = SaveData(file, expenses', disk)
              /\ last' = Call("add", 0, TRUE, SaveResult(disk))
      /\ report' = NoReport
      /\ UNCHANGED <<pc, disk>>

\* "if amount:" of an Optional[str]: neither None nor the empty string
Truthy(opt) == opt.some /\ opt.val # <<>>

\* The record update_expense leaves at the updated position
UpdatedExpense(exp, amount, date, note, category) ==
  LET a == IF Truthy(amount) /\ ValidateAmount(amount.val).some
           THEN ValidateAmount(amount.val).val ELSE exp.amount
      d == IF Truthy(date) /\ ValidateDate(date.val).some
           THEN ValidateDate(date.val).val ELSE exp.date
      n == IF note.some THEN Strip(note.val) ELSE exp.note
      c == IF category.some THEN NormalizeCategory(category.val) ELSE exp.category
  IN  Expense(a, d, n, c)

\* A slip of ValidIndex: the lower bound is forgotten
ValidIndexNoLowerBound(index, exps) == index <= Len(exps)

\* 1 <= index <= len(self.expenses)
ValidIndex(index, exps) == 1 <= index /\ index <= Len(exps)

\* update_expense(index, amount, date, note, category)
UpdateExpense(index, amount, date, note, category) ==
  /\ pc = "ready"
  /\ IF ~ValidIndex(index, expenses)
     THEN /\ last' = Call("update", index, FALSE, "none")
          /\ UNCHANGED <<expenses, file>>
     ELSE /\ expenses' = [expenses EXCEPT ![index] =
                            UpdatedExpense(@, amount, date, note, category)]
          /\ file' = SaveData(file, expenses', disk)
          /\ last' = Call("update", index, TRUE, SaveResult(disk))
  /\ report' = NoReport
  /\ UNCHANGED <<pc, disk>>

\* A slip of Pop: pop(index) for pop(index - 1) removes the next element
PopOffByOne(exps, index) ==
  SubSeq(exps, 1, index) \o SubSeq(exps, index + 2, Len(exps))

\* list.pop(index - 1): the list without its element at 1-based position index
Pop(exps, index) ==
  SubSeq(exps, 1, index - 1) \o SubSeq(exps, index + 1, Len(exps))

\* delete_expense(index)
DeleteExpense(index) ==
  /\ pc = "ready"
  /\ IF ~ValidIndex(index, expenses)
     THEN /\ last' = Call("delete", index, FALSE, "none")
          /\ UNCHANGED <<expenses, file>>
     ELSE /\ expenses' = Pop(expenses, index)
          /\ file' = SaveData(file, expenses', disk)
          /\ last' = Call("delete", index, TRUE, SaveResult(disk))
  /\ report' = NoReport
  /\ UNCHANGED <<pc, disk>>

(***************************************************************************)
(* show_summary.                                                           *)
(***************************************************************************)
\* sum(e['amount'] for e in exps): starts from 0 and adds left to right
RECURSIVE SumAmounts(_)
SumAmounts(exps) ==
  IF exps = <<>> THEN Fin(0)
  ELSE FloatAdd(SumAmounts(SubSeq(exps, 1, Len(exps) - 1)), exps[Len(exps)].amount)

\* cat = e['category'], for each e
CategoryKeys(exps) == [i \in 1..Len(exps) |-> exps[i].category]

\* month = e['date'][:7], for each e
MonthKeys(exps) == [i \in 1..Len(exps) |-> Prefix(exps[i].date, 7)]

\* The dict built by "for e in exps: d[key] = d.get(key, 0) + e['amount']",
\* as a function from its keys; keys[i] is the key the loop computes for exps[i]
RECURSIVE GroupTotals(_, _)
GroupTotals(keys, exps) ==
  IF exps = <<>> THEN <<>>
  ELSE LET n == Len(exps)
           d == GroupTotals(SubSeq(keys, 1, n - 1), SubSeq(exps, 1, n - 1))
           k == keys[n]
       IN  IF k \in DOMAIN d
           THEN [d EXCEPT ![k] = FloatAdd(@, exps[n].amount)]
           ELSE [x \in DOMAIN d \cup {k} |->
                   IF x = k THEN FloatAdd(Fin(0), exps[n].amount) ELSE d[x]]

\* sorted(d.items()): the <<key, total>> pairs in ascending key order
RECURSIVE SortedItems(_)
SortedItems(d) ==
  IF DOMAIN d = {} THEN <<>>
  ELSE LET k == CHOOSE x \in DOMAIN d :
                  \A y \in DOMAIN d : y = x \/ StrLess(x, y)
       IN  <<[key |-> k, total |-> d[k]]>>
             \o SortedItems([x \in DOMAIN d \ {k} |-> d[x]])

\* What show_summary prints for exps
Summary(exps) ==
  IF exps = <<>> THEN NoReport
  ELSE [nodata      |-> FALSE,
        total       |-> SumAmounts(exps),
        by_category |-> SortedItems(GroupTotals(CategoryKeys(exps), exps)),
        by_month    |-> SortedItems(GroupTotals(MonthKeys(exps), exps))]

\* show_summary()
ShowSummary ==
  /\ pc = "ready"
  /\ report' = Summary(expenses)
  /\ last' = Call("summary", 0, TRUE, "none")
  /\ UNCHANGED <<pc, expenses, file, disk>>

\* One call of the command shell, with arguments drawn from adds and updates
Step(adds, updates) ==
  \/ Construct
  \/ \E a \in adds : AddExpense(a[1], a[2], a[3], a[4])
  \/ \E i \in Indexes, u \in updates :
       /\ ValidIndex(i, expenses) \/ u \in OutOfRangeInputs
       /\ UpdateExpense(i, u[1], u[2], u[3], u[4])
  \/ \E i \in Indexes : DeleteExpense(i)
  \/ ShowSummary

Next == Step(AddInputs, UpdateInputs)

NextWide == Step(AddInputsWide, UpdateInputsWide)

\* The tracker on a healthy disk, under the core inputs
Spec == Init /\ [][Next]_vars

\* The tracker on every disk, under the core inputs, a second amount and the
\* amount text "nan"
SpecWide == InitWide /\ [][NextWide]_vars

(***************************************************************************)
(* What the claims speak of, stated without the program's own validators.  *)
(***************************************************************************)
\* d is in strict YYYY-MM-DD form (four-digit year, two-digit month, two-digit
\* day) and names a date of the Gregorian calendar
IsStrictDate(d) ==
  /\ Len(d) = 10
  /\ \A i \in {1, 2, 3, 4, 6, 7, 9, 10} : IsDigit(d[i])
  /\ d[5] = "-" /\ d[8] = "-"
  /\ IsCalendarDate(DigitsVal(SubSeq(d, 1, 4)), DigitsVal(SubSeq(d, 6, 7)),
                    DigitsVal(SubSeq(d, 9, 10)))

\* k is a calendar month in YYYY-MM form
IsYearMonth(k) ==
  /\ Len(k) = 7
  /\ \A i \in {1, 2, 3, 4, 6, 7} : IsDigit(k[i])
  /\ k[5] = "-"
  /\ DigitsVal(SubSeq(k, 6, 7)) \in 1..12

\* the amount text denotes a number greater than zero
IsPositiveNumber(text) ==
  ParseFloat(text).ok /\ FloatPositive(ParseFloat(text).val)

\* t is s without its leading and trailing whitespace
IsStrippedOf(t, s) ==
  /\ \E l \in 0..Len(s), r \in 0..Len(s) :
       /\ l + Len(t) + r = Len(s)
       /\ \A i \in 1..l : IsSpace(s[i])
       /\ \A i \in (Len(s) - r + 1)..Len(s) : IsSpace(s[i])
       /\ t = SubSeq(s, l + 1, Len(s) - r)
  /\ t = <<>> \/ (~IsSpace(t[1]) /\ ~IsSpace(t[Len(t)]))

\* c is the stored form of category text s: s stripped, or "Uncategorized"
\* when nothing is left
IsCategoryOf(c, s) ==
  \/ IsStrippedOf(c, s) /\ c # <<>>
  \/ IsStrippedOf(<<>>, s) /\ c = Uncategorized

\* the step left the in-memory sequence and the durable file alone and
\* returned failure
FailedWithoutEffect ==
  /\ last'.ret = FALSE
  /\ last'.save = "none"
  /\ expenses' = expenses
  /\ file' = file

\* the sum of the amounts of the records of exps at the positions in S
RECURSIVE AmountOver(_, _)
AmountOver(exps, S) ==
  IF S = {} THEN Fin(0)
  ELSE LET m == CHOOSE i \in S : \A j \in S : j <= i
       IN  FloatAdd(AmountOver(exps, S \ {m}), exps[m].amount)

\* the sum of the totals of the entries of a grouping
RECURSIVE TotalOf(_)
TotalOf(items) ==
  IF items = <<>> THEN Fin(0)
  ELSE FloatAdd(TotalOf(SubSeq(items, 1, Len(items) - 1)), items[Len(items)].total)

\* the entries of a grouping are in strictly ascending key order
Ascending(items) ==
  \A i \in 1..(Len(items) - 1) : StrLess(items[i].key, items[i + 1].key)

IsPrefixOf(k, s) == Len(k) <= Len(s) /\ SubSeq(s, 1, Len(k)) = k

(***************************************************************************)
(* The claims.                                                             *)
(***************************************************************************)
\* C1: after any sequence of load, add, update and delete, every record of
\* the in-memory sequence has amount > 0 and a date that is a valid
\* YYYY-MM-DD calendar date.
C1_EveryRecordValid ==
  pc = "ready" =>
    \A i \in 1..Len(expenses) :
      FloatPositive(expenses[i].amount) /\ IsStrictDate(expenses[i].date)

\* C2: when an add, update or delete returns success, the durable file holds
\* exactly the in-memory sequence, and a save that failed with an I/O error
\* is never returned as success.
C2_SuccessMeansSaved ==
  (last.op \in {"add", "update", "delete"} /\ last.ret = TRUE) =>
    (file = File("list", expenses) /\ last.save # "ioerror")

\* C3: validate_date accepts a string if and only if it is a strict
\* YYYY-MM-DD Gregorian date (an add with a valid amount succeeds exactly for
\* those); for every other string add appends nothing and update leaves the
\* record's date unchanged.
C3_OnlyStrictDatesAccepted ==
  [][/\ \A a \in AddInputs :
          (last'.op = "add" /\ AddExpense(a[1], a[2], a[3], a[4])) =>
            /\ IsPositiveNumber(a[1]) => (last'.ret = IsStrictDate(a[2]))
            /\ ~IsStrictDate(a[2]) => expenses' = expenses
     /\ \A i \in Indexes, u \in UpdateInputs :
          (/\ last'.op = "update"
           /\ UpdateExpense(i, u[1], u[2], u[3], u[4])
           /\ ValidIndex(i, expenses)
           /\ u[2].some
           /\ ~IsStrictDate(u[2].val)) => expenses'[i].date = expenses[i].date
    ]_vars

\* C4: load never fails fatally: construction of the tracker always
\* completes, and on an absent, unreadable or structurally invalid file the
\* in-memory sequence is empty.
C4_LoadNeverFatal ==
  /\ pc # "crashed"
  /\ (last.op = "load" /\ file.kind # "list") => expenses = <<>>

\* C5: for every amount text that parses to a number > 0 and every valid
\* date, add returns success, the record count grows by exactly 1, the
\* earlier records keep their positions and values, and the new last record
\* has the parsed amount, the given date, the note stripped of surrounding
\* whitespace, and the stripped category or "Uncategorized" when the stripped
\* category is empty.
C5_AddAppendsNormalizedRecord ==
  [][\A a \in AddInputs :
       (/\ last'.op = "add"
        /\ IsPositiveNumber(a[1])
        /\ IsStrictDate(a[2])
        /\ AddExpense(a[1], a[2], a[3], a[4])) =>
         LET n == Len(expenses)
         IN  /\ last'.ret = TRUE
             /\ Len(expenses') = n + 1
             /\ SubSeq(expenses', 1, n) = expenses
             /\ expenses'[n + 1].amount = ParseFloat(a[1]).val
             /\ expenses'[n + 1].date = a[2]
             /\ IsStrippedOf(expenses'[n + 1].note, a[3])
             /\ IsCategoryOf(expenses'[n + 1].category, a[4])
    ]_vars

\* C5's case: an add with a blank note and a blank category has just
\* appended a second record, stored with the default category
C5_Witness ==
  /\ last.op = "add"
  /\ last.ret = TRUE
  /\ Len(expenses) = 2
  /\ expenses[2] = Expense(Fin(15), D_2024_02_29, <<>>, Uncategorized)

\* C6: for every amount text that is non-numeric or denotes a value <= 0,
\* and for every invalid date, add returns failure, leaves the in-memory
\* sequence unchanged and does not rewrite the durable file, whatever the
\* other field is.
C6_InvalidAddRejected ==
  [][\A a \in AddInputs :
       (/\ last'.op = "add"
        /\ AddExpense(a[1], a[2], a[3], a[4])
        /\ ~IsPositiveNumber(a[1]) \/ ~IsStrictDate(a[2])) => FailedWithoutEffect
    ]_vars

\* C7: update with an index in [1, length] returns success and changes, in
\* the record at that index only, exactly the fields that were supplied and
\* valid: an invalid amount or date is skipped, a field not supplied keeps
\* its value, and the length and every other record are unchanged.
C7_UpdateChangesValidFieldsOnly ==
  [][\A i \in Indexes, u \in UpdateInputs :
       (/\ last'.op = "update"
        /\ UpdateExpense(i, u[1], u[2], u[3], u[4])
        /\ ValidIndex(i, expenses)) =>
         /\ last'.ret = TRUE
         /\ Len(expenses') = Len(expenses)
         /\ \A j \in 1..Len(expenses) : j # i => expenses'[j] = expenses[j]
         /\ expenses'[i].amount =
              IF u[1].some /\ IsPositiveNumber(u[1].val)
              THEN ParseFloat(u[1].val).val ELSE expenses[i].amount
         /\ expenses'[i].date =
              IF u[2].some /\ IsStrictDate(u[2].val)
              THEN u[2].val ELSE expenses[i].date
         /\ IF u[3].some THEN IsStrippedOf(expenses'[i].note, u[3].val)
                         ELSE expenses'[i].note = expenses[i].note
         /\ IF u[4].some THEN IsCategoryOf(expenses'[i].category, u[4].val)
                         ELSE expenses'[i].category = expenses[i].category
    ]_vars

\* C8: for every index outside [1, length] (0, negative, length + 1, any
\* index on an empty store), update and delete return failure, leave the
\* in-memory sequence identical and do not rewrite the durable file.
C8_OutOfRangeIndexRejected ==
  [][(/\ last'.op \in {"update", "delete"}
      /\ ~(1 <= last'.index /\ last'.index <= Len(expenses)))
       => FailedWithoutEffect
    ]_vars

\* C8's case: an update with index length + 1 on a non-empty store has
\* returned failure
C8_Witness ==
  /\ last.op = "update"
  /\ last.ret = FALSE
  /\ expenses # <<>>
  /\ last.index = Len(expenses) + 1

\* C9: for a sequence of length n and every i in [1, n], delete(i) returns
\* success and yields a sequence of length n-1 in which the records formerly
\* at 1..i-1 keep their positions and those formerly at i+1..n each move down
\* by exactly one (so the record formerly at i is the one removed).
C9_DeleteShiftsLaterRecords ==
  [][(/\ last'.op = "delete"
      /\ 1 <= last'.index /\ last'.index <= Len(expenses)) =>
       LET i == last'.index
           n == Len(expenses)
       IN  /\ last'.ret = TRUE
           /\ Len(expenses') = n - 1
           /\ \A j \in 1..(i - 1) : expenses'[j] = expenses[j]
           /\ \A j \in (i + 1)..n : expenses'[j - 1] = expenses[j]
    ]_vars

\* C9's case: delete(1) has removed the first of several records, and a
\* record that stood behind it is now the first
C9_Witness ==
  /\ last.op = "delete"
  /\ last.ret = TRUE
  /\ last.index = 1
  /\ Len(expenses) >= 1

\* C10: on a non-empty store, summary reports the grand total of all
\* amounts, per distinct category the sum of the amounts of the records with
\* exactly that category, and per month key the sum of the amounts of the
\* records whose date starts with that key, every month key being the YYYY-MM
\* calendar month of a record's date; both groupings are in ascending key
\* order and each grouping's totals sum to the grand total.  On an empty
\* store it reports the no-data indicator and no totals.
C10_SummaryTotals ==
  last.op = "summary" =>
    IF expenses = <<>>
    THEN report.nodata /\ report.by_category = <<>> /\ report.by_month = <<>>
    ELSE LET all  == 1..Len(expenses)
             cats == report.by_category
             mons == report.by_month
         IN  /\ ~report.nodata
             /\ report.total = AmountOver(expenses, all)
             /\ {cats[x].key : x \in 1..Len(cats)}
                  = {expenses[i].category : i \in all}
             /\ \A x \in 1..Len(cats) :
                  cats[x].total =
                    AmountOver(expenses,
                               {i \in all : expenses[i].category = cats[x].key})
             /\ \A i \in all :
                  \E x \in 1..Len(mons) : IsPrefixOf(mons[x].key, expenses[i].date)
             /\ \A x \in 1..Len(mons) :
                  /\ IsYearMonth(mons[x].key)
                  /\ mons[x].total =
                       AmountOver(expenses,
                                  {i \in all : IsPrefixOf(mons[x].key, expenses[i].date)})
             /\ Ascending(cats) /\ Ascending(mons)
             /\ TotalOf(cats) = report.total /\ TotalOf(mons) = report.total

=============================================================================
